---------------------------- MODULE Spec2Model ----------------------------
(***************************************************************************)
(* Reactor Stabilizer (static/stabilizer.js): the client-side session      *)
(* state machine, the pendulum integrator and the two network exchanges.   *)
(* resetGame, the handler of the retry button, is not part of              *)
(* static/stabilizer.js; it is taken from the script quoted in README.md.  *)
(*                                                                         *)
(* Numbers.  JavaScript numbers are IEEE doubles.  A number is modelled as *)
(* a record [k, v]: k = "num" with v a fixed-point integer (value * Scale),*)
(* or one of the non-finite doubles "NaN", "Infinity", "-Infinity", or the *)
(* value "undefined" that an out-of-range array read yields.  Arithmetic   *)
(* on the non-finite values follows IEEE 754 / ECMAScript; arithmetic on   *)
(* finite values is fixed-point with truncation.                           *)
(***************************************************************************)
EXTENDS Integers, Sequences, FiniteSets, TLC

\* ------------------------------------------------------------------ bounds

\* Fixed-point resolution of the finite doubles (units per 1.0).
Scale == 1000

\* CONFIG.successFrames is 300 in the source; the run length is scaled down
\* so that whole runs, and several of them, are explored exhaustively.
successFrames == 3

\* Longest chaos schedule the server issues in the model (entries per array).
MaxSched == 3

\* Runs started per page load (caps the run counter).
MaxRuns == 2
\* Units of the frame clock per second.
ClockHz == 120

\* ------------------------------------------------------------ CONFIG

canvasWidth == 600
cartWidth == 60
fps == 60
failAngle == (14 * Scale) \div 10
dampingFactor == (985 * Scale) \div 1000
cartForceMultiplier == Scale \div 10

\* ------------------------------------------------------------ numbers

Num(n) == [k |-> "num", v |-> n]
NaN == [k |-> "NaN", v |-> 0]
PosInf == [k |-> "Infinity", v |-> 0]
NegInf == [k |-> "-Infinity", v |-> 0]
Undef == [k |-> "undefined", v |-> 0]

IsFinite(x) == x.k = "num"

\* ToNumber(undefined) is NaN; every other modelled value is a number already.
ToNumber(x) == IF x.k = "undefined" THEN NaN ELSE x

AbsInt(n) == IF n < 0 THEN -n ELSE n

\* Integer division truncating toward zero (b # 0).
TDiv(a, b) ==
  IF (a < 0) = (b < 0) THEN AbsInt(a) \div AbsInt(b)
  ELSE -(AbsInt(a) \div AbsInt(b))

\* Sign of a non-NaN number: -1, 0 or 1 (an infinity has the sign it names).
Sgn(x) ==
  CASE x.k = "Infinity" -> 1
    [] x.k = "-Infinity" -> -1
    [] OTHER -> IF x.v > 0 THEN 1 ELSE IF x.v < 0 THEN -1 ELSE 0

InfOfSign(s) == IF s > 0 THEN PosInf ELSE NegInf

FAdd(a, b) ==
  LET x == ToNumber(a)
      y == ToNumber(b)
  IN  IF x.k = "NaN" \/ y.k = "NaN" THEN NaN
      ELSE IF x.k = "num" /\ y.k = "num" THEN Num(x.v + y.v)
      ELSE IF x.k = "num" THEN y
      ELSE IF y.k = "num" THEN x
      ELSE IF x.k = y.k THEN x
      ELSE NaN

FMul(a, b) ==
  LET x == ToNumber(a)
      y == ToNumber(b)
  IN  IF x.k = "NaN" \/ y.k = "NaN" THEN NaN
      ELSE IF x.k = "num" /\ y.k = "num" THEN Num(TDiv(x.v * y.v, Scale))
      ELSE IF Sgn(x) = 0 \/ Sgn(y) = 0 THEN NaN
      ELSE InfOfSign(Sgn(x) * Sgn(y))

\* A zero divisor is +0 (the JSON literal 0): x/0 is an infinity of x's sign,
\* 0/0 is NaN.
FDiv(a, b) ==
  LET x == ToNumber(a)
      y == ToNumber(b)
  IN  IF x.k = "NaN" \/ y.k = "NaN" THEN NaN
      ELSE IF x.k = "num" /\ y.k = "num" THEN
             IF y.v = 0
             THEN (IF x.v = 0 THEN NaN ELSE InfOfSign(Sgn(x)))
             ELSE Num(TDiv(x.v * Scale, y.v))
      ELSE IF x.k # "num" /\ y.k # "num" THEN NaN
      ELSE IF x.k = "num" THEN Num(0)
      ELSE InfOfSign(Sgn(x) * (IF Sgn(y) < 0 THEN -1 ELSE 1))

\* Math.sin / Math.cos by their Taylor polynomials (they are applied only to
\* |x| <= failAngle or to a non-finite value, which gives NaN).
FSin(a) ==
  LET x == ToNumber(a)
  IN  IF x.k # "num" THEN NaN
      ELSE LET x2 == TDiv(x.v * x.v, Scale)
               x3 == TDiv(x2 * x.v, Scale)
               x5 == TDiv(TDiv(x3 * x.v, Scale) * x.v, Scale)
           IN  Num(x.v - TDiv(x3, 6) + TDiv(x5, 120))

FCos(a) ==
  LET x == ToNumber(a)
  IN  IF x.k # "num" THEN NaN
      ELSE LET x2 == TDiv(x.v * x.v, Scale)
               x4 == TDiv(x2 * x2, Scale)
               x6 == TDiv(x4 * x2, Scale)
           IN  Num(Scale - TDiv(x2, 2) + TDiv(x4, 24) - TDiv(x6, 720))

\* Math.abs
FAbs(a) ==
  LET x == ToNumber(a)
  IN  CASE x.k = "num" -> Num(AbsInt(x.v))
        [] x.k = "NaN" -> NaN
        [] OTHER -> PosInf

\* a > b on doubles: false as soon as either side is NaN.
FGt(a, b) ==
  LET x == ToNumber(a)
      y == ToNumber(b)
  IN  CASE x.k = "NaN" \/ y.k = "NaN" -> FALSE
        [] x.k = "num" /\ y.k = "num" -> x.v > y.v
        [] x.k = "Infinity" -> y.k # "Infinity"
        [] x.k = "-Infinity" -> FALSE
        [] OTHER -> y.k = "-Infinity"

MinInt(a, b) == IF a < b THEN a ELSE b

\* arr[i] in JavaScript: undefined outside 0 .. length-1 (arr is 1-based here).
ArrayGet(arr, i) == IF i >= 0 /\ i < Len(arr) THEN arr[i + 1] ELSE Undef

\* JSON.stringify of one number: a non-finite number is written as null.
JsonNumber(x) == IF x.k = "num" THEN x ELSE [k |-> "null", v |-> 0]

\* JSON.stringify of an array of numbers.
JsonArray(arr) == [i \in 1..Len(arr) |-> JsonNumber(arr[i])]


\* ------------------------------------------------ server-issued values

\* One tick's entries of the three schedule arrays.
Nominal ==
  [gravity |-> Num(Scale \div 2), length |-> Num(100 * Scale), force_jolts |-> Num(0)]
Jolted ==
  [gravity |-> Num(Scale \div 2), length |-> Num(100 * Scale),
   force_jolts |-> Num((15 * Scale) \div 10)]
ZeroLength ==
  [gravity |-> Num(Scale \div 2), length |-> Num(0), force_jolts |-> Num(0)]
Slices == {Nominal, Jolted, ZeroLength}

\* data.schedule when the response carries one: three arrays of equal length.
ScheduleOf(s) ==
  [k |-> "object",
   gravity |-> [i \in 1..Len(s) |-> s[i].gravity],
   length |-> [i \in 1..Len(s) |-> s[i].length],
   force_jolts |-> [i \in 1..Len(s) |-> s[i].force_jolts]]

\* The schedules the server issues in the model: a nominal prefix, alone or
\* ended by one disturbed entry (which then holds for the rest of the run).
NominalPrefix(n) == [i \in 1..n |-> Nominal]
Schedules ==
  {ScheduleOf(NominalPrefix(n)) : n \in 0..MaxSched}
  \cup {ScheduleOf(Append(NominalPrefix(n), d)) :
          n \in 0..(MaxSched - 1), d \in {Jolted, ZeroLength}}

\* state.schedule when it is null (initially) or undefined (data.schedule missing).
NoSchedule(kind) ==
  [k |-> kind, gravity |-> <<>>, length |-> <<>>, force_jolts |-> <<>>]

Token(n) == [k |-> "string", n |-> n]
NullToken == [k |-> "null", n |-> 0]
UndefinedToken == [k |-> "undefined", n |-> 0]

\* What the fetch of /init_stabilizer can deliver: a rejected fetch, a body that
\* is not JSON, the JSON value null, or a JSON object with or without its fields.
InitResponses ==
  {[kind |-> f, hasToken |-> FALSE, schedule |-> NoSchedule("undefined")] :
      f \in {"reject", "notjson", "null"}}
  \cup {[kind |-> "object", hasToken |-> TRUE, schedule |-> sch] :
          sch \in Schedules \cup {NoSchedule("undefined")}}
  \cup {[kind |-> "object", hasToken |-> FALSE, schedule |-> sch] :
          sch \in {ScheduleOf(NominalPrefix(MaxSched)), NoSchedule("undefined")}}

\* What the fetch of /verify_stability can deliver.
VerifyResponses ==
  {[kind |-> f, verified |-> "undefined"] : f \in {"reject", "notjson", "null"}}
  \cup {[kind |-> "object", verified |-> v] : v \in {"true", "false", "undefined"}}

\* e.clientX - rect.left of the mousemove events, in pixels.
PointerPositions == {0, 400}

\* ------------------------------------------------------------- state

VARIABLES
  \* the state object
  initialized, running, gameOver, success, sessionToken, schedule,
  poleAngle, angularVelocity, cartX, prevCartX, mouseX,
  frameCount, angleHistory, currentGravity, currentLength, currentJolt,
  \* the DOM elements the code writes
  statusEl, verifyBtn, retryBtn, clickPrompt,
  \* the event loop: fetches in flight and registered frame callbacks
  initPending, verifyPending, rafCount,
  \* what left the client: bodies POSTed, arguments of window.showResult
  posted, shown,
  \* history: cartAccel of the last tick of the run (0 before its first), runs
  \* started, endGame's argument,
  \* tokens delivered, how each exchange ended, an uncaught throw in gameLoop,
  \* the tokens runs were started under and the token of the latest run
  cartAccel, runId, outcome, issued, lastInit, lastVerify, loopThrew,
  usedTokens, runToken,
  \* history: the runs that were abandoned (reset while Running)
  abandoned,
  \* observers: the elapsed time the steps of the run that is on have not yet
  \* consumed (0 when no run is on), and whether a mousemove event has arrived
  \* since the page loaded
  sinceTick, pointerMoved,
  \* the text of #angleDisplay
  angleDisplay,
  \* a second run of the same page, given the same schedule, the same tilt
  \* sign and the same cart positions at every tick, but its own jitter draws
  twinAngle, twinVelocity, twinHistory, twinOutcome,
  \* the animation frame in progress: the callbacks of it still to run (0
  \* between frames) and whether one of those already run took a step
  frameLeft, frameStepped

flagVars == <<initialized, running, gameOver, success>>
sessionVars == <<sessionToken, schedule>>
physVars ==
  <<poleAngle, angularVelocity, frameCount, angleHistory,
    currentGravity, currentLength, currentJolt, cartAccel>>
cartVars == <<cartX, prevCartX>>
domVars == <<statusEl, verifyBtn, retryBtn, clickPrompt>>
netVars == <<initPending, verifyPending, posted, shown, lastInit, lastVerify, issued>>
histVars == <<runId, outcome, loopThrew, usedTokens, runToken, abandoned>>

twinVars == <<twinAngle, twinVelocity, twinHistory, twinOutcome>>
obsVars == <<sinceTick, pointerMoved>>
frameVars == <<frameLeft, frameStepped>>

vars ==
  <<flagVars, sessionVars, physVars, cartVars, mouseX, domVars, netVars,
    rafCount, histVars, obsVars, angleDisplay, twinVars, frameVars>>

\* The state literal, then setupInputHandlers() and initGame() up to its fetch.
Init ==
  /\ initialized = FALSE
  /\ running = FALSE
  /\ gameOver = FALSE
  /\ success = FALSE
  /\ sessionToken = NullToken
  /\ schedule = NoSchedule("null")
  /\ poleAngle = Num((5 * Scale) \div 100)
  /\ angularVelocity = Num(0)
  /\ cartX = 300 * Scale
  /\ prevCartX = 300 * Scale
  /\ mouseX = 0
  /\ frameCount = 0
  /\ angleHistory = <<>>
  /\ currentGravity = Num(Scale \div 2)
  /\ currentLength = Num(100 * Scale)
  /\ currentJolt = Num(0)
  /\ statusEl = ""
  /\ verifyBtn = ""
  /\ retryBtn = ""
  /\ clickPrompt = "block"
  /\ initPending = TRUE
  /\ verifyPending = FALSE
  /\ rafCount = 0
  /\ posted = <<>>
  /\ shown = <<>>
  /\ cartAccel = 0
  /\ runId = 0
  /\ outcome = "none"
  /\ issued = 0
  /\ lastInit = "none"
  /\ lastVerify = "none"
  /\ loopThrew = FALSE
  /\ usedTokens = {}
  /\ runToken = NullToken
  /\ abandoned = {}
  /\ sinceTick = 0
  /\ pointerMoved = FALSE
  /\ angleDisplay = Undef
  /\ twinAngle = Num((5 * Scale) \div 100)
  /\ twinVelocity = Num(0)
  /\ twinHistory = <<>>
  /\ twinOutcome = "none"
  /\ frameLeft = 0
  /\ frameStepped = FALSE

\* ------------------------------------------------------------- frames

\* The callbacks registered for one animation frame run one after the other,
\* with the same timestamp; fetch continuations and input events run between
\* frames.
BetweenFrames == frameLeft = 0

\* The callbacks of the frame still to run once this one is done: the first
\* callback of a frame finds rafCount of them registered.
LeftAfter(left, registered) == IF left > 0 THEN left - 1 ELSE registered - 1

\* ------------------------------------------------------------- initGame

\* The rest of initGame once its fetch has settled.  A rejected fetch, a
\* rejected res.json() and a TypeError on data.session_token (data null) all
\* land in the catch block before anything was assigned.  A JSON object is
\* assigned field by field, whatever fields it has.
InitGameSettles ==
  /\ BetweenFrames
  /\ initPending
  /\ initPending' = FALSE
  /\ \E resp \in InitResponses :
       IF resp.kind = "object"
       THEN /\ sessionToken' =
                 (IF resp.hasToken THEN Token(issued + 1) ELSE UndefinedToken)
            /\ issued' = (IF resp.hasToken THEN issued + 1 ELSE issued)
            /\ schedule' = resp.schedule
            /\ initialized' = TRUE
            /\ statusEl' = "REACTOR READY // AWAITING INPUT"
            /\ rafCount' = rafCount + 1
            /\ lastInit' =
                 (IF resp.hasToken /\ resp.schedule.k = "object"
                  THEN "ok" ELSE "malformed")
       ELSE /\ statusEl' = "SYSTEM ERROR"
            /\ lastInit' = "failed"
            /\ UNCHANGED <<sessionToken, issued, schedule, initialized, rafCount>>
  /\ UNCHANGED <<running, gameOver, success, physVars, cartVars, mouseX,
                 verifyBtn, retryBtn, clickPrompt, verifyPending, posted, shown,
                 lastVerify, histVars, obsVars, angleDisplay, twinVars,
                 frameVars>>

\* ------------------------------------------------------------- updatePhysics

\* Mutant of ScheduleFrame: the frame count is used as the index unclamped.
ScheduleFrameUnclamped(fc, n) == fc

\* const frame = Math.min(state.frameCount, state.schedule.gravity.length - 1)
ScheduleFrame(fc, n) == MinInt(fc, n - 1)

\* angularVelocity after the += and the *= of one tick.
StepVelocity(av, angle, g, l, j, accel) ==
  LET gravityTorque == FMul(FDiv(g, l), FSin(angle))
      inertialTorque ==
        FMul(FDiv(FMul(Num(-cartForceMultiplier), Num(accel)), l), FCos(angle))
  IN  FMul(FAdd(av, FAdd(FAdd(gravityTorque, inertialTorque), j)),
           Num(dampingFactor))

\* Mutant of Termination: the success test is off by one (> for >=).
TerminationOffByOne(angle, fc) ==
  IF FGt(FAbs(angle), Num(failAngle)) THEN "fail"
  ELSE IF fc > successFrames THEN "success"
  ELSE "none"

\* The if / else-if that ends updatePhysics: which endGame call is made.
Termination(angle, fc) ==
  IF FGt(FAbs(angle), Num(failAngle)) THEN "fail"
  ELSE IF fc >= successFrames THEN "success"
  ELSE "none"

\* Mutant of EndGameVerifyBtn: the verify button is shown at every end of run.
EndGameVerifyBtnAlways(term, btn) == IF term # "none" THEN "visible" ELSE btn

\* endGame: the class of verifyBtn and of retryBtn after the call, if any.
EndGameVerifyBtn(term, btn) == IF term = "success" THEN "visible" ELSE btn
EndGameRetryBtn(term, btn) == IF term = "fail" THEN "visible" ELSE btn

\* Mutant of Push: a non-finite sample is not recorded.
PushFiniteOnly(hist, angle) == IF IsFinite(angle) THEN Append(hist, angle) ELSE hist

\* state.angleHistory.push(state.poleAngle)
Push(hist, angle) == Append(hist, angle)

\* Mutant of PhysicsRuns: the guard lets a finished run through.
PhysicsRunsIgnoringGameOver == running \/ gameOver

\* if (!state.running || state.gameOver) return;
PhysicsRuns == running /\ ~gameOver

\* ------------------------------------------------------------- render

\* Math.PI
Pi == (31416 * Scale) \div 10000

\* const angleDeg = (state.poleAngle * 180) / Math.PI
AngleDeg(angle) == FDiv(FMul(angle, Num(180 * Scale)), Num(Pi))

\* x.toFixed(1): the nearest tenth; "NaN" and "Infinity" for what is not finite.
ToFixed1(x) ==
  LET tenth == Scale \div 10
  IN  IF x.k = "num"
      THEN Num((IF x.v < 0 THEN -1 ELSE 1)
               * ((AbsInt(x.v) + tenth \div 2) \div tenth) * tenth)
      ELSE x

\* const displayNoise = (Math.random() - 0.5) * 2.0: a value of [-1, 1),
\* in degrees.
DisplayNoise == {-Scale, Scale \div 2}

\* const noisyAngle = (angleDeg + displayNoise).toFixed(1)
NoisyAngle(angle, noise) == ToFixed1(FAdd(AngleDeg(angle), Num(noise)))

\* Mutant of UpdateDisplaysAngle: the jitter is written back to the state.
UpdateDisplaysAngleJammed(angle, noise) == FAdd(angle, Num(noise))

\* state.poleAngle once updateDisplays is done: angleDeg, displayNoise and
\* noisyAngle are locals, the field is only read.
UpdateDisplaysAngle(angle, noise) == angle

\* state.cartX += (state.mouseX - state.cartX) * 0.2
Smooth(cx, mx) == cx + TDiv((mx - cx) * 2, 10)

\* ------------------------------------------------------------- gameLoop

\* const frameInterval = 1000 / CONFIG.fps, in clock units.
frameInterval == ClockHz \div fps

\* currentTime - lastTime of the first callback of a frame: a display that
\* refreshes twice per tick interval, one that refreshes once per interval, and
\* a frame that arrives two and a half intervals late.  A later callback of the
\* same frame is handed the same timestamp: no time has passed.
FrameDeltas ==
  {frameInterval \div 2, frameInterval, 2 * frameInterval + frameInterval \div 2}

\* The observer's range: beyond one step early or one step overdue the amount
\* is not told apart.
ClampTime(t) ==
  IF t < -1 THEN -1 ELSE IF t > frameInterval THEN frameInterval ELSE t

\* The elapsed time left over once a frame has taken one step: a step consumes
\* one interval and the remainder carries over.
AfterStep(acc, deltaTime) == ClampTime(acc + deltaTime - frameInterval)

\* One frame callback: updatePhysics(), render(), requestAnimationFrame(gameLoop).
\* When a run is on and state.schedule is not an object, reading
\* state.schedule.gravity throws: the callback ends there, before render and
\* before it registers itself again.  The callback takes no timestamp: a
\* frame that steps does so whatever time has passed since the frame before.
GameLoop ==
  /\ rafCount > 0
  /\ IF PhysicsRuns /\ schedule.k # "object"
     THEN /\ rafCount' = rafCount - 1
          /\ loopThrew' = TRUE
          /\ frameLeft' = LeftAfter(frameLeft, rafCount)
          /\ frameStepped' = (frameStepped /\ frameLeft' > 0)
          /\ UNCHANGED <<flagVars, sessionVars, physVars, cartVars, mouseX,
                         domVars, netVars, runId, outcome, usedTokens, runToken,
                         abandoned, obsVars, angleDisplay, twinVars>>
     ELSE IF PhysicsRuns
     THEN LET frame == ScheduleFrame(frameCount, Len(schedule.gravity))
              g == ArrayGet(schedule.gravity, frame)
              l == ArrayGet(schedule.length, frame)
              j == ArrayGet(schedule.force_jolts, frame)
              accel == cartX - prevCartX
              av == StepVelocity(angularVelocity, poleAngle, g, l, j, accel)
              angle == FAdd(poleAngle, av)
              fc == frameCount + 1
              term == Termination(angle, fc)
              twinAv == StepVelocity(twinVelocity, twinAngle, g, l, j, accel)
              twinStepped == FAdd(twinAngle, twinAv)
              twinTerm == Termination(twinStepped, fc)
          IN  /\ currentGravity' = g
              /\ currentLength' = l
              /\ currentJolt' = j
              /\ cartAccel' = accel
              /\ angularVelocity' = av
              /\ angleHistory' = Push(angleHistory, angle)
              /\ twinVelocity' = twinAv
              /\ twinHistory' = Push(twinHistory, twinStepped)
              /\ twinOutcome' = (IF twinTerm = "none" THEN twinOutcome ELSE twinTerm)
              /\ frameCount' = fc
              \* endGame(success)
              /\ running' = (term = "none")
              /\ gameOver' = (term # "none")
              /\ outcome' = (IF term = "none" THEN outcome ELSE term)
              /\ statusEl' = (CASE term = "success" -> "STABILIZED. VERIFYING..."
                                [] term = "fail" -> "CRITICAL FAILURE"
                                [] OTHER -> statusEl)
              /\ verifyBtn' = EndGameVerifyBtn(term, verifyBtn)
              /\ retryBtn' = EndGameRetryBtn(term, retryBtn)
              \* render(), on the state updatePhysics left
              /\ cartX' = (IF term = "none" THEN Smooth(cartX, mouseX) ELSE mouseX)
              /\ prevCartX' = (IF term = "none" THEN cartX ELSE mouseX)
              \* updateDisplays(), at the end of render()
              /\ \E noise \in DisplayNoise, twinNoise \in DisplayNoise :
                   /\ twinNoise # noise
                   /\ angleDisplay' = NoisyAngle(angle, noise)
                   /\ poleAngle' = UpdateDisplaysAngle(angle, noise)
                   /\ twinAngle' = UpdateDisplaysAngle(twinStepped, twinNoise)
              \* the frame comes deltaTime after the one before it
              /\ frameLeft' = LeftAfter(frameLeft, rafCount)
              /\ frameStepped' = (frameLeft' > 0)
              /\ \E deltaTime \in (IF BetweenFrames THEN FrameDeltas ELSE {0}) :
                   sinceTick' = (IF term = "none"
                                 THEN AfterStep(sinceTick, deltaTime) ELSE 0)
              /\ UNCHANGED <<initialized, success, sessionVars, mouseX, clickPrompt,
                             netVars, rafCount, runId, loopThrew, usedTokens,
                             runToken, abandoned, pointerMoved>>
     ELSE \* updatePhysics returned at once; render()
          /\ cartX' = (IF running THEN Smooth(cartX, mouseX) ELSE mouseX)
          /\ prevCartX' = (IF running THEN prevCartX ELSE mouseX)
          /\ \E noise \in DisplayNoise, twinNoise \in DisplayNoise :
               /\ twinNoise # noise
               /\ angleDisplay' = NoisyAngle(poleAngle, noise)
               /\ poleAngle' = UpdateDisplaysAngle(poleAngle, noise)
               /\ twinAngle' = UpdateDisplaysAngle(twinAngle, twinNoise)
          /\ frameLeft' = LeftAfter(frameLeft, rafCount)
          /\ frameStepped' = (frameStepped /\ frameLeft' > 0)
          /\ UNCHANGED <<flagVars, sessionVars, angularVelocity, frameCount,
                         angleHistory, currentGravity, currentLength,
                         currentJolt, cartAccel, mouseX, domVars, netVars,
                         rafCount, histVars, obsVars, twinVelocity, twinHistory,
                         twinOutcome>>

\* ------------------------------------------------------------- input

\* canvas mousemove
MouseMove ==
  /\ BetweenFrames
  /\ \E px \in PointerPositions : mouseX' = px * Scale
  /\ pointerMoved' = TRUE
  /\ UNCHANGED <<flagVars, sessionVars, physVars, cartVars, domVars, netVars,
                 rafCount, histVars, sinceTick, angleDisplay, twinVars,
                 frameVars>>

\* if (state.mouseX === 0 && state.prevCartX === 300) return;
BotCheck(mx, pcx) == mx = 0 /\ pcx = 300 * Scale

\* Mutant of CanStart: a finished run does not stop a click.
CanStartIgnoringGameOver == initialized /\ ~running

\* if (state.initialized && !state.running && !state.gameOver)
CanStart == initialized /\ ~running /\ ~gameOver

\* Mutant of Teleport: prevCartX is left as the last render set it.
TeleportCartOnly(mx) == <<mx, prevCartX>>

\* state.cartX = state.mouseX; state.prevCartX = state.mouseX;
Teleport(mx) == <<mx, mx>>

StartGame ==
  /\ cartX' = Teleport(mouseX)[1]
  /\ prevCartX' = Teleport(mouseX)[2]
  /\ \E sign \in {1, -1} :
       /\ poleAngle' = Num(sign * ((5 * Scale) \div 100))
       /\ twinAngle' = Num(sign * ((5 * Scale) \div 100))
  /\ angularVelocity' = Num(0)
  /\ twinVelocity' = Num(0)
  /\ frameCount' = 0
  /\ angleHistory' = <<>>
  /\ twinHistory' = <<>>
  /\ twinOutcome' = "none"
  /\ running' = TRUE
  /\ clickPrompt' = "none"
  /\ statusEl' = "STABILIZATION IN PROGRESS..."
  /\ runId' = runId + 1
  /\ outcome' = "none"
  /\ usedTokens' = usedTokens \cup {sessionToken}
  /\ runToken' = sessionToken
  /\ cartAccel' = 0
  \* the most a click can find accumulated: a step is all but due
  /\ sinceTick' = frameInterval - 1
  /\ UNCHANGED <<initialized, gameOver, success, sessionVars, mouseX,
                 currentGravity, currentLength, currentJolt,
                 verifyBtn, retryBtn, netVars, rafCount, loopThrew, abandoned,
                 pointerMoved, angleDisplay, frameVars>>

\* canvas click
Click ==
  /\ BetweenFrames
  /\ IF ~BotCheck(mouseX, prevCartX) /\ CanStart
     THEN runId < MaxRuns /\ StartGame
     ELSE UNCHANGED vars

\* ------------------------------------------------------------- verifyHuman

\* The body of the POST, as JSON.stringify writes it.
VerifyBody ==
  [session_token |-> sessionToken, angle_history |-> JsonArray(angleHistory)]

\* verifyBtn click: verifyHuman up to its fetch.  The button is clickable
\* while its class is "visible".
VerifyHuman ==
  /\ BetweenFrames
  /\ verifyBtn = "visible"
  /\ verifyBtn' = ""
  /\ statusEl' = "ANALYZING TELEMETRY..."
  /\ posted' = Append(posted, [body |-> VerifyBody, run |-> runId,
                               running |-> running, outcome |-> outcome,
                               runToken |-> runToken])
  /\ verifyPending' = TRUE
  /\ UNCHANGED <<flagVars, sessionVars, physVars, cartVars, mouseX, retryBtn,
                 clickPrompt, initPending, shown, lastInit, lastVerify, issued,
                 rafCount, histVars, obsVars, angleDisplay, twinVars,
                 frameVars>>

\* The rest of verifyHuman once its fetch has settled.  There is no catch: a
\* rejected fetch, a rejected res.json() or a TypeError on data.verified ends
\* the function with nothing done.
VerifyHumanSettles ==
  /\ BetweenFrames
  /\ verifyPending
  /\ verifyPending' = FALSE
  /\ \E resp \in VerifyResponses :
       /\ lastVerify' = (IF resp.kind = "object" /\ resp.verified # "undefined"
                         THEN "ok"
                         ELSE IF resp.kind = "object" THEN "malformed"
                         ELSE "failed")
       /\ shown' = (IF resp.kind = "object" THEN Append(shown, resp.verified)
                    ELSE shown)
  /\ UNCHANGED <<flagVars, sessionVars, physVars, cartVars, mouseX, domVars,
                 initPending, posted, lastInit, issued, rafCount, histVars,
                 obsVars, angleDisplay, twinVars, frameVars>>

\* ------------------------------------------------------------- resetGame

\* The retry button is clickable while its class is "visible".
RetryOffered == retryBtn = "visible"

\* Mutant of ResetTrace: the trace of the run that was reset is kept.
ResetTraceKept == angleHistory

\* state.angleHistory = [];
ResetTrace == <<>>

\* Mutant of ResetInitialized: the flag is left as it was.
ResetInitializedKept == initialized

\* state.initialized = false;
ResetInitialized == FALSE

\* resetGame up to the fetch of the initGame it awaits.
ResetGameBody ==
  /\ initialized' = ResetInitialized
  /\ running' = FALSE
  /\ gameOver' = FALSE
  /\ success' = FALSE
  /\ frameCount' = 0
  /\ angleHistory' = ResetTrace
  /\ poleAngle' = Num((5 * Scale) \div 100)
  /\ angularVelocity' = Num(0)
  /\ twinAngle' = Num((5 * Scale) \div 100)
  /\ twinVelocity' = Num(0)
  /\ twinHistory' = ResetTrace
  /\ twinOutcome' = "none"
  /\ cartX' = (canvasWidth \div 2) * Scale
  /\ prevCartX' = (canvasWidth \div 2) * Scale
  /\ verifyBtn' = ""
  /\ retryBtn' = ""
  /\ initPending' = TRUE
  /\ outcome' = "none"
  /\ abandoned' = (IF running /\ ~gameOver THEN abandoned \cup {runId} ELSE abandoned)
  /\ sinceTick' = 0
  /\ cartAccel' = 0
  /\ UNCHANGED <<sessionVars, mouseX, currentGravity, currentLength, currentJolt,
                 statusEl, clickPrompt, verifyPending, posted, shown,
                 lastInit, lastVerify, issued, rafCount, runId, loopThrew,
                 usedTokens, runToken, pointerMoved, angleDisplay, frameVars>>

\* A click of the retry button.
ResetGame == BetweenFrames /\ RetryOffered /\ ResetGameBody

\* resetGame invoked while a run is on: the run is abandoned.  What invokes it
\* then is not part of the script; the specification lets a run be abandoned
\* at any tick.
AbandonRun == BetweenFrames /\ running /\ ~gameOver /\ ResetGameBody

\* ------------------------------------------------------------- the program

Next ==
  \/ InitGameSettles
  \/ GameLoop
  \/ MouseMove
  \/ Click
  \/ VerifyHuman
  \/ VerifyHumanSettles
  \/ ResetGame
  \/ AbandonRun

Spec == Init /\ [][Next]_vars

\* What tells the callback of a run that is on from every other step: with a
\* schedule it is the one step that increments frameCount, without one it is
\* the one step that takes a callback off the frame loop.  A registered
\* callback can always be run, so this is enabled exactly when GameLoop is
\* while a run is on.
RunningCallback ==
  /\ running /\ ~gameOver
  /\ rafCount > 0
  /\ IF schedule.k = "object"
     THEN frameCount' = frameCount + 1 /\ rafCount' = rafCount
     ELSE frameCount' = frameCount /\ rafCount' = rafCount - 1

\* The browser keeps delivering animation frames: while a run is on, a
\* registered callback is eventually run.  Nothing obliges the user or the
\* server to act.
FairSpec == Spec /\ WF_<<frameCount, rafCount>>(RunningCallback)

\* ------------------------------------------------------------- session states

\* The five session states of the specification, read off the flags.
Idle == ~initialized
AwaitingStart == initialized /\ ~running /\ ~gameOver
Running == running /\ ~gameOver
Succeeded == gameOver /\ outcome = "success"
Failed == gameOver /\ outcome = "fail"

\* a <= b on doubles: false as soon as either side is NaN.
FLe(a, b) ==
  LET x == ToNumber(a)
      y == ToNumber(b)
  IN  x.k # "NaN" /\ y.k # "NaN" /\ ~FGt(x, y)

Samples == 1..Len(angleHistory)

\* ------------------------------------------------------------- C1

\* C1: in every reachable state the length of the telemetry trace
\* (angleHistory) equals frameCount.
C1_TraceLengthIsFrameCount == Len(angleHistory) = frameCount

\* A second run, reached through a failed run and a reset, two ticks in.
C1_Witness == Running /\ runId = 2 /\ frameCount = 2

\* ------------------------------------------------------------- C2

\* C2: whenever a run has ended Succeeded the trace holds exactly
\* successFrames samples, and frameCount never exceeds successFrames.
C2_SucceededAtExactlySuccessFrames ==
  /\ Succeeded => Len(angleHistory) = successFrames /\ frameCount = successFrames
  /\ frameCount <= successFrames

C2_Witness == Succeeded /\ Len(angleHistory) = successFrames

\* ------------------------------------------------------------- C3

\* C3: a run that reaches successFrames on the tick where |poleAngle| exceeds
\* failAngle ends Failed, and a run ends Succeeded only if |poleAngle| <=
\* failAngle held after every one of its ticks, the last included.
C3_SucceededOnlyWithinFailAngle ==
  /\ (gameOver /\ frameCount = successFrames /\ FGt(FAbs(poleAngle), Num(failAngle)))
       => Failed
  /\ Succeeded => \A i \in Samples : FLe(FAbs(angleHistory[i]), Num(failAngle))

\* The part of C3 the order of the two tests decides: no sample of a
\* Succeeded run is above failAngle, and a run whose last tick both exceeds
\* failAngle and reaches successFrames is Failed.
FailureTakesPrecedence ==
  /\ (gameOver /\ frameCount = successFrames /\ FGt(FAbs(poleAngle), Num(failAngle)))
       => Failed
  /\ Succeeded => \A i \in Samples : ~FGt(FAbs(angleHistory[i]), Num(failAngle))

\* ------------------------------------------------------------- C4

\* C4: every POST to /verify_stability is made in Succeeded (never while a run
\* is Running, never for a Failed run), at most once per run, and carries the
\* run's whole trace (successFrames samples) and the token the run started
\* under.
C4_SubmissionOnlyOncePerSucceededRun ==
  /\ \A i \in 1..Len(posted) :
       /\ posted[i].outcome = "success"
       /\ ~posted[i].running
       /\ Len(posted[i].body.angle_history) = successFrames
       /\ posted[i].body.session_token = posted[i].runToken
  /\ \A i, j \in 1..Len(posted) : posted[i].run = posted[j].run => i = j
  /\ verifyBtn = "visible" => Succeeded /\ \A i \in 1..Len(posted) : posted[i].run # runId

\* The second run, started after a failed one and a reset, has been submitted.
C4_Witness == Len(posted) = 1 /\ posted[1].run = 2 /\ Succeeded

\* ------------------------------------------------------------- C5

\* C5: a run whose poleAngle became NaN or an infinity is ended Failed on that
\* tick: no run is left Running with a non-finite angle, no Succeeded run has a
\* non-finite sample, and no POSTed trace has one (written as null).
C5_NonFiniteAngleFails ==
  /\ Running => IsFinite(poleAngle)
  /\ Succeeded => \A i \in Samples : IsFinite(angleHistory[i])
  /\ \A i \in 1..Len(posted) :
       \A n \in 1..Len(posted[i].body.angle_history) :
         posted[i].body.angle_history[n].k = "num"

\* ------------------------------------------------------------- C6

\* C6: the first tick of a run computes cartAccel = 0, whatever the pointer
\* did before the start click and between the click and that tick.
C6_FirstTickAccelerationIsZero == frameCount = 1 => cartAccel = 0

\* After the first tick of a run started with the pointer moved away from its
\* initial place, and moved again between the click and the tick: the render
\* of that tick has already pulled cartX off the start position prevCartX.
C6_Witness ==
  /\ Running /\ frameCount = 1 /\ cartAccel = 0
  /\ prevCartX # 0
  /\ cartX # prevCartX

\* ------------------------------------------------------------- C7

\* C7: after a failed schedule acquisition (rejected fetch, body not JSON,
\* response without session_token or schedule) the session is Idle: not
\* initialized, no run on, and the frame loop has never thrown.
C7_FailedAcquisitionStaysIdle ==
  /\ lastInit \in {"failed", "malformed"} => Idle /\ ~running
  /\ ~loopThrew

\* ------------------------------------------------------------- C8

\* C8: once a schedule acquisition has failed, on first load or after a
\* reset, the session can acquire again: an acquisition is in flight or the
\* action that re-invokes it is enabled.
C8_FailedAcquisitionIsRetriable ==
  (lastInit = "failed" /\ Idle) =>
     (initPending \/ ENABLED ResetGame \/ ENABLED AbandonRun)

\* ------------------------------------------------------------- C9

\* C9: once a telemetry submission has failed (rejected fetch, malformed
\* response) a not-verified result has been shown, the status no longer reads
\* "ANALYZING TELEMETRY..." and the retry is offered.
C9_FailedSubmissionIsSurfaced ==
  (lastVerify \in {"failed", "malformed"} /\ ~verifyPending) =>
     /\ shown # <<>>
     /\ shown[Len(shown)] = "false"
     /\ statusEl # "ANALYZING TELEMETRY..."
     /\ RetryOffered

\* ------------------------------------------------------------- C10

\* C10: no run starts under a token an earlier run started under (n runs
\* have used n tokens), and a run that follows a reset is on only after the
\* acquisition that reset began has succeeded.
C10_TokenNeverReused ==
  /\ Cardinality(usedTokens) = runId
  /\ (running /\ runId > 1) => lastInit = "ok"

\* ------------------------------------------------------------- C11

\* C11: a run that was abandoned (resetGame invoked while Running) is never
\* submitted: its trace is discarded by the reset, the verify button is not
\* offered for it, and every trace ever POSTed is that of a Succeeded run that
\* was not abandoned and has successFrames samples.
C11_AbandonedRunIsNeverSubmitted ==
  /\ \A i \in 1..Len(posted) :
       /\ posted[i].run \notin abandoned
       /\ posted[i].outcome = "success"
       /\ Len(posted[i].body.angle_history) = successFrames
  /\ (runId \in abandoned) =>
       /\ angleHistory = <<>> /\ frameCount = 0
       /\ verifyBtn # "visible"
       /\ ~running /\ ~gameOver

\* The first run was abandoned part-way and a later run has been submitted.
C11_Witness ==
  /\ 1 \in abandoned
  /\ Len(posted) = 1 /\ posted[1].run = 2

\* ------------------------------------------------------------- C12

\* C12, as stated: from the moment a run is Succeeded or Failed until a reset,
\* no step changes poleAngle, angularVelocity, cartX, prevCartX, frameCount or
\* the trace.
C12_FrozenAfterTerminal ==
  [][(gameOver /\ gameOver') =>
       UNCHANGED <<poleAngle, angularVelocity, cartX, prevCartX, frameCount,
                   angleHistory>>]_vars

\* C12, amended: from the moment a run is Succeeded or Failed until a reset, no
\* step changes poleAngle, angularVelocity, frameCount or the trace; the cart
\* is not frozen: each render puts cartX and prevCartX on the pointer.
C12_PendulumFrozenCartFollowsPointer ==
  [][(gameOver /\ gameOver') =>
       /\ UNCHANGED <<poleAngle, angularVelocity, frameCount, angleHistory>>
       /\ (cartX' # cartX \/ prevCartX' # prevCartX) =>
             (cartX' = mouseX /\ prevCartX' = mouseX)]_vars

\* A finished run after which the pointer has moved away from the cart.
C12_Witness == gameOver /\ mouseX # cartX /\ frameCount > 0

\* ------------------------------------------------------------- C13

\* C13: a click is the only way into Running, and it takes the session there
\* only from a state that is initialized, not running and not finished; the
\* run then starts with poleAngle +0.05 or -0.05, angularVelocity 0,
\* frameCount 0 and an empty trace.  A click in any other state changes
\* nothing.
C13_ClickStartsOnlyWhenReady ==
  [][/\ (~running /\ running') =>
          /\ initialized /\ ~gameOver
          /\ initialized' /\ ~gameOver'
          /\ poleAngle' \in {Num((5 * Scale) \div 100), Num(-((5 * Scale) \div 100))}
          /\ angularVelocity' = Num(0)
          /\ frameCount' = 0
          /\ angleHistory' = <<>>
     /\ (Click /\ ~(initialized /\ ~running /\ ~gameOver)) => UNCHANGED vars]_vars

\* A run that a click has started and that has not ticked yet, after an
\* earlier run ended.
C13_Witness ==
  running /\ ~gameOver /\ frameCount = 0 /\ angleHistory = <<>> /\ runId > 1

\* ------------------------------------------------------------- C14

\* C14: every frame callback taken while Running performs one simulator step:
\* it appends the angle it computed to the end of the trace, leaving the
\* earlier samples as they were, and increments frameCount by one.
C14_EveryRunningTickStepsOnce ==
  [][(running /\ ~gameOver /\ GameLoop) =>
        /\ frameCount' = frameCount + 1
        /\ angleHistory' = Append(angleHistory, poleAngle')]_vars

\* The part of C14 that holds: the trace and the frame count change together,
\* either cleared by a start or a reset, or grown by the one sample the step
\* computed.
TraceGrowsOneSamplePerStep ==
  [][(angleHistory' # angleHistory \/ frameCount' # frameCount) =>
        \/ angleHistory' = <<>> /\ frameCount' = 0
        \/ /\ running /\ ~gameOver
           /\ frameCount' = frameCount + 1
           /\ angleHistory' = Append(angleHistory, poleAngle')]_vars

\* ------------------------------------------------------------- C15

\* C15: with a schedule of N >= 1 entries, the gravity, length and jolt used by
\* tick f (the tick that takes frameCount from f to f + 1) are the entries at
\* index min(f, N - 1); the index read lies in 0..N-1, so no read gives
\* undefined, also when N is less than successFrames.
C15_ScheduleReadIsClamped ==
  (frameCount >= 1 /\ schedule.k = "object" /\ Len(schedule.gravity) >= 1) =>
     LET N == Len(schedule.gravity)
         f == frameCount - 1
         i == IF f < N - 1 THEN f ELSE N - 1
     IN  /\ i \in 0..(N - 1)
         /\ currentGravity = schedule.gravity[i + 1]
         /\ currentLength = schedule.length[i + 1]
         /\ currentJolt = schedule.force_jolts[i + 1]
         /\ currentGravity.k # "undefined"
         /\ currentLength.k # "undefined"
         /\ currentJolt.k # "undefined"

\* A run that has ticked past the end of a schedule shorter than successFrames.
C15_Witness ==
  /\ schedule.k = "object"
  /\ Len(schedule.gravity) >= 1
  /\ Len(schedule.gravity) < successFrames
  /\ frameCount > Len(schedule.gravity)

\* ------------------------------------------------------------- C16

\* C16: the cartX a simulator step uses lies within
\* [cartWidth / 2, canvasWidth - cartWidth / 2].
C16_CartWithinTrack ==
  [][(running /\ ~gameOver /\ frameCount' = frameCount + 1) =>
        /\ cartX >= (cartWidth \div 2) * Scale
        /\ cartX <= (canvasWidth - cartWidth \div 2) * Scale]_vars

\* ------------------------------------------------------------- C17

\* C17: a simulator step fires only once the elapsed time accumulated since
\* the last step has reached the tick interval, and the remainder carries
\* over: the elapsed time the steps have not consumed is never negative (no
\* step came early or twice) and never a whole interval or more once a frame is
\* done (no due step was skipped, also on a frame that arrives late).
C17_StepsFollowElapsedTime ==
  sinceTick >= 0 /\ sinceTick < frameInterval

\* ------------------------------------------------------------- C19

\* C19: no click starts a run while no mousemove event has arrived since the
\* page loaded (mouseX still holds its initial value), however many frames were
\* rendered before the click.
C19_NoStartBeforePointerMoves ==
  [][(~running /\ running') => pointerMoved]_vars

\* ------------------------------------------------------------- C18

C20_SessionFixedWhileRunning ==
  [][(running /\ ~gameOver) =>
        /\ UNCHANGED <<sessionToken, schedule>>
        /\ ~initPending]_vars

\* A run on the schedule of a second acquisition, some ticks in.
C20_Witness ==
  /\ running /\ ~gameOver /\ frameCount > 0
  /\ runId > 1 /\ issued > 1
  /\ sessionToken = runToken

\* ------------------------------------------------------------- C21

\* C21: in every reachable state running and gameOver are not both true, and
\* running implies initialized and a schedule that is present (an object, not
\* null or undefined); the one running flag means at most one run is on.
C21_FlagsEncodeOneState ==
  /\ ~(running /\ gameOver)
  /\ running => (initialized /\ schedule.k = "object")

\* The part of C21 that holds: the flags are exclusive and a run is on only
\* under the initialized flag.
FlagsAreExclusive ==
  /\ ~(running /\ gameOver)
  /\ running => initialized

\* ------------------------------------------------------------- C22

\* C22: however many times initGame has registered gameLoop, the callbacks of
\* one animation frame (one timestamp) take at most one physics step between
\* them: no callback steps in a frame in which an earlier one already did.
C22_OneStepPerFrame ==
  [][(frameCount' = frameCount + 1) => ~frameStepped]_vars

\* ------------------------------------------------------------- C23

\* C23: a run that is on has taken fewer than successFrames steps, and, with
\* animation frames arriving, every run that is on comes to Succeeded or
\* Failed unless it is abandoned.
C23_EveryRunTerminates ==
  /\ [](running => frameCount < successFrames)
  /\ (running /\ ~gameOver) ~> (gameOver \/ runId \in abandoned)

\* The part of C23 that holds: a run never outlasts successFrames steps, and
\* the step that brings frameCount to successFrames ends it.
RunEndsWithinSuccessFrames ==
  /\ running => frameCount < successFrames
  /\ frameCount <= successFrames

\* The part of C23 that holds: a run started on a schedule that is present
\* comes to an end or is abandoned.
RunOnAScheduleTerminates ==
  (running /\ ~gameOver /\ schedule.k = "object") ~>
     (gameOver \/ runId \in abandoned)

=============================================================================
